---- MODULE Spec2Model ----
(***************************************************************************)
(* Model of the vecs crate: the generic Vec2<T>/Vec3<T> of src/lib.rs      *)
(* instantiated at a fixed-width signed integer T, and the Float-bound     *)
(* Vec2<T>/Vec3<T> of src/vecs/vec2.rs and src/vecs/vec3.rs instantiated   *)
(* at a binary floating-point T with round-to-nearest-even, signed zeros,  *)
(* infinities and NaN.                                                     *)
(***************************************************************************)
EXTENDS Integers, FiniteSets, Sequences, TLC

(***************************************************************************)
(* Bounds of the element types.                                            *)
(***************************************************************************)
\* width in bits of the signed integer element type (i8, i16, i32 ... in Rust)
IntBits == 10
\* significand precision of the float element type, in bits
MantBits == 4
\* 1.0 is 2^FracBits units of the smallest subnormal
FracBits == 5
\* number of binades above the subnormal one
ExpSteps == 6

RECURSIVE Pow2(_)
Pow2(n) == IF n = 0 THEN 1 ELSE 2 * Pow2(n - 1)

AbsI(n) == IF n < 0 THEN -n ELSE n

(***************************************************************************)
(* The integer element type: two's complement, IntBits wide.  Arithmetic   *)
(* that overflows panics when the build has overflow checks (the debug     *)
(* and test profiles) and wraps when it has not (the release profile).     *)
(***************************************************************************)
MinInt == -Pow2(IntBits - 1)
MaxInt == Pow2(IntBits - 1) - 1
InRange(n) == MinInt <= n /\ n <= MaxInt
Wrap(n) == ((n - MinInt) % Pow2(IntBits)) + MinInt

\* the outcome of an integer expression: a value, or a panic that unwinds
Ok(n) == [p |-> FALSE, v |-> n]
Panicked == [p |-> TRUE, v |-> 0]
IntOp(exact, checks) ==
    IF InRange(exact) THEN Ok(exact)
    ELSE IF checks THEN Panicked
    ELSE Ok(Wrap(exact))

IAdd(x, y, checks) == IF x.p \/ y.p THEN Panicked ELSE IntOp(x.v + y.v, checks)
ISub(x, y, checks) == IF x.p \/ y.p THEN Panicked ELSE IntOp(x.v - y.v, checks)
IMul(x, y, checks) == IF x.p \/ y.p THEN Panicked ELSE IntOp(x.v * y.v, checks)
INeg(x, checks) == IF x.p THEN Panicked ELSE IntOp(-x.v, checks)

(***************************************************************************)
(* The float element type.  A float is NaN, a signed infinity, or a signed *)
(* finite magnitude counted in units of the smallest subnormal; the finite *)
(* magnitudes are m * 2^j with m < 2^MantBits and j <= ExpSteps.           *)
(***************************************************************************)
TwoP == Pow2(MantBits)
One == Pow2(FracBits)
MaxQuantum == Pow2(ExpSteps)
MaxFinite == (TwoP - 1) * MaxQuantum

NaN == [cls |-> "nan", sgn |-> 0, mag |-> 0]
Inf(s) == [cls |-> "inf", sgn |-> s, mag |-> 0]
Fin(s, m) == [cls |-> "fin", sgn |-> s, mag |-> m]
IsNaN(x) == x.cls = "nan"
IsInf(x) == x.cls = "inf"
IsFin(x) == x.cls = "fin"
IsZero(x) == x.cls = "fin" /\ x.mag = 0
Xor(s, t) == IF s = t THEN 0 ELSE 1
\* the signed value of a finite float, in units
Val(x) == IF x.sgn = 1 THEN -x.mag ELSE x.mag

\* the spacing of the floats around the non-negative rational n/d (in units)
RECURSIVE Quantum(_, _, _)
Quantum(n, d, q) == IF n < TwoP * q * d THEN q ELSE Quantum(n, d, 2 * q)

\* n/d units (n >= 0, d > 0) rounded to nearest, ties to even; overflow to Inf
RoundRat(s, n, d) ==
    LET q == Quantum(n, d, 1)
        m == n \div (d * q)
        r == n - m * d * q
        up == (2 * r > d * q) \/ (2 * r = d * q /\ m % 2 = 1)
        mag == (IF up THEN m + 1 ELSE m) * q
    IN  IF mag > MaxFinite THEN Inf(s) ELSE Fin(s, mag)

RECURSIVE ISqrt(_)
ISqrt(n) ==
    IF n < 2 THEN n
    ELSE LET s == 2 * ISqrt(n \div 4)
         IN  IF (s + 1) * (s + 1) <= n THEN s + 1 ELSE s

\* sqrt(n) units (n >= 0) rounded to nearest, ties to even
RoundSqrt(n) ==
    LET q == Quantum(ISqrt(n), 1, 1)
        m == ISqrt(n \div (q * q))
        c == (2 * m + 1) * (2 * m + 1) * q * q
        up == (4 * n > c) \/ (4 * n = c /\ m % 2 = 1)
    IN  Fin(0, (IF up THEN m + 1 ELSE m) * q)

FNeg(x) == IF IsNaN(x) THEN NaN ELSE [x EXCEPT !.sgn = 1 - x.sgn]

FAbs(x) == IF IsNaN(x) THEN NaN ELSE [x EXCEPT !.sgn = 0]

FAdd(x, y) ==
    IF IsNaN(x) \/ IsNaN(y) THEN NaN
    ELSE IF IsInf(x) /\ IsInf(y) THEN (IF x.sgn = y.sgn THEN x ELSE NaN)
    ELSE IF IsInf(x) THEN x
    ELSE IF IsInf(y) THEN y
    ELSE LET t == Val(x) + Val(y)
         IN  IF t = 0 THEN Fin(IF x.sgn = 1 /\ y.sgn = 1 THEN 1 ELSE 0, 0)
             ELSE RoundRat(IF t < 0 THEN 1 ELSE 0, AbsI(t), 1)

FSub(x, y) == FAdd(x, FNeg(y))

FMul(x, y) ==
    IF IsNaN(x) \/ IsNaN(y) THEN NaN
    ELSE IF (IsInf(x) /\ IsZero(y)) \/ (IsZero(x) /\ IsInf(y)) THEN NaN
    ELSE IF IsInf(x) \/ IsInf(y) THEN Inf(Xor(x.sgn, y.sgn))
    ELSE RoundRat(Xor(x.sgn, y.sgn), x.mag * y.mag, One)

FDiv(x, y) ==
    IF IsNaN(x) \/ IsNaN(y) THEN NaN
    ELSE IF (IsInf(x) /\ IsInf(y)) \/ (IsZero(x) /\ IsZero(y)) THEN NaN
    ELSE IF IsInf(x) \/ IsZero(y) THEN Inf(Xor(x.sgn, y.sgn))
    ELSE IF IsInf(y) THEN Fin(Xor(x.sgn, y.sgn), 0)
    ELSE RoundRat(Xor(x.sgn, y.sgn), x.mag * One, y.mag)

FSqrt(x) ==
    IF IsNaN(x) THEN NaN
    ELSE IF IsZero(x) THEN x
    ELSE IF x.sgn = 1 THEN NaN
    ELSE IF IsInf(x) THEN x
    ELSE RoundSqrt(x.mag * One)

\* powi(2): one correctly rounded multiplication
FPowi2(x) == FMul(x, x)

\* the float's own ==: NaN equals nothing, the two zeros are equal
FEq(x, y) ==
    /\ ~IsNaN(x)
    /\ ~IsNaN(y)
    /\ \/ x = y
       \/ IsZero(x) /\ IsZero(y)

(***************************************************************************)
(* src/lib.rs: Vec2<T> and Vec3<T> at the integer element type.  Every     *)
(* operation yields an outcome: p (it panicked) and v (what it returned).  *)
(***************************************************************************)
LibVec2_new(x, y) == [x |-> x, y |-> y]

LibVec2_dot(self, other, checks) ==
    IAdd(IMul(Ok(self.x), Ok(other.x), checks),
         IMul(Ok(self.y), Ok(other.y), checks), checks)

LibVec2_add(self, other, checks) ==
    LET x == IAdd(Ok(self.x), Ok(other.x), checks)
        y == IAdd(Ok(self.y), Ok(other.y), checks)
    IN  [p |-> x.p \/ y.p, v |-> [x |-> x.v, y |-> y.v]]

LibVec2_sub(self, other, checks) ==
    LET x == ISub(Ok(self.x), Ok(other.x), checks)
        y == ISub(Ok(self.y), Ok(other.y), checks)
    IN  [p |-> x.p \/ y.p, v |-> [x |-> x.v, y |-> y.v]]

\* #[derive(PartialEq)]: every field compared with T's ==
LibVec2_eq(self, other) == self.x = other.x /\ self.y = other.y

LibVec3_new(x, y, z) == [x |-> x, y |-> y, z |-> z]

LibVec3_dot(self, other, checks) ==
    IAdd(IAdd(IMul(Ok(self.x), Ok(other.x), checks),
              IMul(Ok(self.y), Ok(other.y), checks), checks),
         IMul(Ok(self.z), Ok(other.z), checks), checks)

\* a variant of cross on wrapping arithmetic: it ignores the overflow checks
LibVec3_cross_wrapping(self, other, checks) ==
    LET x == ISub(IMul(Ok(self.y), Ok(other.z), FALSE),
                  IMul(Ok(self.z), Ok(other.y), FALSE), FALSE)
        y == ISub(IMul(Ok(self.x), Ok(other.z), FALSE),
                  IMul(Ok(self.z), Ok(other.x), FALSE), FALSE)
        z == ISub(IMul(Ok(self.x), Ok(other.y), FALSE),
                  IMul(Ok(self.y), Ok(other.x), FALSE), FALSE)
        ny == INeg(y, FALSE)
    IN  [p |-> FALSE, v |-> [x |-> x.v, y |-> ny.v, z |-> z.v]]

LibVec3_cross(self, other, checks) ==
    LET x == ISub(IMul(Ok(self.y), Ok(other.z), checks),
                  IMul(Ok(self.z), Ok(other.y), checks), checks)
        y == ISub(IMul(Ok(self.x), Ok(other.z), checks),
                  IMul(Ok(self.z), Ok(other.x), checks), checks)
        z == ISub(IMul(Ok(self.x), Ok(other.y), checks),
                  IMul(Ok(self.y), Ok(other.x), checks), checks)
        ny == INeg(y, checks)
    IN  [p |-> x.p \/ ny.p \/ z.p, v |-> LibVec3_new(x.v, ny.v, z.v)]

LibVec3_add(self, other, checks) ==
    LET x == IAdd(Ok(self.x), Ok(other.x), checks)
        y == IAdd(Ok(self.y), Ok(other.y), checks)
        z == IAdd(Ok(self.z), Ok(other.z), checks)
    IN  [p |-> x.p \/ y.p \/ z.p, v |-> [x |-> x.v, y |-> y.v, z |-> z.v]]

LibVec3_sub(self, other, checks) ==
    LET x == ISub(Ok(self.x), Ok(other.x), checks)
        y == ISub(Ok(self.y), Ok(other.y), checks)
        z == ISub(Ok(self.z), Ok(other.z), checks)
    IN  [p |-> x.p \/ y.p \/ z.p, v |-> [x |-> x.v, y |-> y.v, z |-> z.v]]

LibVec3_eq(self, other) ==
    self.x = other.x /\ self.y = other.y /\ self.z = other.z

(***************************************************************************)
(* src/vecs/vec2.rs: Vec2<T: Float>.                                       *)
(***************************************************************************)
Vec2_new(x, y) == [x |-> x, y |-> y]

\* a slip in dot: the second product takes self.y twice
Vec2_dot_self_y(self, other) ==
    FAdd(FMul(self.x, other.x), FMul(self.y, self.y))

Vec2_dot(self, other) == FAdd(FMul(self.x, other.x), FMul(self.y, other.y))

Vec2_length(self) == FSqrt(FAdd(FPowi2(self.x), FPowi2(self.y)))

Vec2_length_squared(self) == FAdd(FPowi2(self.x), FPowi2(self.y))

\* a slip in normal: the right-hand perpendicular (y, -x)
Vec2_normal_right(self) == [x |-> self.y, y |-> FNeg(self.x)]

Vec2_normal(self) == Vec2_new(FNeg(self.y), self.x)

Vec2_div_scalar(self, rhs) == Vec2_new(FDiv(self.x, rhs), FDiv(self.y, rhs))

\* a slip in normalize: the divisor is the squared length
Vec2_normalize_by_squared(self) ==
    LET length == Vec2_length_squared(self)
    IN  Vec2_div_scalar(self, length)

Vec2_normalize(self) ==
    LET length == Vec2_length(self)
    IN  Vec2_div_scalar(self, length)

Vec2_abs(self) == Vec2_new(FAbs(self.x), FAbs(self.y))

Vec2_x(self) == self.x

Vec2_y(self) == self.y

\* what self is after self.set(x, y)
Vec2_set(self, x, y) == [self EXCEPT !.x = x, !.y = y]

Vec2_add(self, rhs) == [x |-> FAdd(self.x, rhs.x), y |-> FAdd(self.y, rhs.y)]

Vec2_sub(self, rhs) == [x |-> FSub(self.x, rhs.x), y |-> FSub(self.y, rhs.y)]

\* what self is after self += rhs
Vec2_add_assign(self, rhs) ==
    [self EXCEPT !.x = FAdd(self.x, rhs.x), !.y = FAdd(self.y, rhs.y)]

\* what self is after self -= rhs
Vec2_sub_assign(self, rhs) ==
    [self EXCEPT !.x = FSub(self.x, rhs.x), !.y = FSub(self.y, rhs.y)]

Vec2_mul_scalar(self, rhs) == Vec2_new(FMul(self.x, rhs), FMul(self.y, rhs))

\* f32 * Vec2<T>
F32_mul_Vec2(self, rhs) == Vec2_new(FMul(self, rhs.x), FMul(self, rhs.y))

Vec2_mul_vec(self, rhs) == Vec2_new(FMul(self.x, rhs.x), FMul(self.y, rhs.y))

\* f32 / Vec2<T>
F32_div_Vec2(self, rhs) == Vec2_new(FDiv(self, rhs.x), FDiv(self, rhs.y))

Vec2_div_vec(self, rhs) == Vec2_new(FDiv(self.x, rhs.x), FDiv(self.y, rhs.y))

Vec2_neg(self) == Vec2_new(FNeg(self.x), FNeg(self.y))

\* a slip in ==: the components are compared as a set, not in place
Vec2_eq_unordered(self, other) ==
    \/ FEq(self.x, other.x) /\ FEq(self.y, other.y)
    \/ FEq(self.x, other.y) /\ FEq(self.y, other.x)

\* #[derive(PartialEq)]: every field compared with the float's ==
Vec2_eq(self, other) == FEq(self.x, other.x) /\ FEq(self.y, other.y)

(***************************************************************************)
(* src/vecs/vec3.rs: Vec3<T: Float>.                                       *)
(***************************************************************************)
Vec3_new(x, y, z) == [x |-> x, y |-> y, z |-> z]

Vec3_dot(self, other) ==
    FAdd(FAdd(FMul(self.x, other.x), FMul(self.y, other.y)),
         FMul(self.z, other.z))

\* a slip in cross: the y component is not negated (the left-handed product)
Vec3_cross_unnegated(self, other) ==
    LET x == FSub(FMul(self.y, other.z), FMul(self.z, other.y))
        y == FSub(FMul(self.x, other.z), FMul(self.z, other.x))
        z == FSub(FMul(self.x, other.y), FMul(self.y, other.x))
    IN  [x |-> x, y |-> y, z |-> z]

Vec3_cross(self, other) ==
    LET x == FSub(FMul(self.y, other.z), FMul(self.z, other.y))
        y == FSub(FMul(self.x, other.z), FMul(self.z, other.x))
        z == FSub(FMul(self.x, other.y), FMul(self.y, other.x))
    IN  Vec3_new(x, FNeg(y), z)

Vec3_length(self) ==
    FSqrt(FAdd(FAdd(FPowi2(self.x), FPowi2(self.y)), FPowi2(self.z)))

Vec3_length_squared(self) ==
    FAdd(FAdd(FPowi2(self.x), FPowi2(self.y)), FPowi2(self.z))

Vec3_div_scalar(self, rhs) ==
    Vec3_new(FDiv(self.x, rhs), FDiv(self.y, rhs), FDiv(self.z, rhs))

Vec3_normalize(self) ==
    LET length == Vec3_length(self)
    IN  Vec3_div_scalar(self, length)

Vec3_abs(self) == Vec3_new(FAbs(self.x), FAbs(self.y), FAbs(self.z))

Vec3_x(self) == self.x

Vec3_y(self) == self.y

Vec3_z(self) == self.z

\* what self is after self.set(x, y, z)
Vec3_set(self, x, y, z) == [self EXCEPT !.x = x, !.y = y, !.z = z]

Vec3_add(self, rhs) ==
    [x |-> FAdd(self.x, rhs.x), y |-> FAdd(self.y, rhs.y),
     z |-> FAdd(self.z, rhs.z)]

\* a slip in sub: z is taken from the y components
Vec3_sub_z_from_y(self, rhs) ==
    [x |-> FSub(self.x, rhs.x), y |-> FSub(self.y, rhs.y),
     z |-> FSub(self.y, rhs.y)]

Vec3_sub(self, rhs) ==
    [x |-> FSub(self.x, rhs.x), y |-> FSub(self.y, rhs.y),
     z |-> FSub(self.z, rhs.z)]

\* a += that leaves the z of self as it was
Vec3_add_assign_stale_z(self, rhs) ==
    [self EXCEPT !.x = FAdd(self.x, rhs.x), !.y = FAdd(self.y, rhs.y)]

\* what self is after self += rhs
Vec3_add_assign(self, rhs) ==
    [self EXCEPT !.x = FAdd(self.x, rhs.x), !.y = FAdd(self.y, rhs.y),
                 !.z = FAdd(self.z, rhs.z)]

\* what self is after self -= rhs
Vec3_sub_assign(self, rhs) ==
    [self EXCEPT !.x = FSub(self.x, rhs.x), !.y = FSub(self.y, rhs.y),
                 !.z = FSub(self.z, rhs.z)]

Vec3_mul_scalar(self, rhs) ==
    Vec3_new(FMul(self.x, rhs), FMul(self.y, rhs), FMul(self.z, rhs))

\* f32 * Vec3<T>
F32_mul_Vec3(self, rhs) ==
    Vec3_new(FMul(self, rhs.x), FMul(self, rhs.y), FMul(self, rhs.z))

Vec3_mul_vec(self, rhs) ==
    Vec3_new(FMul(self.x, rhs.x), FMul(self.y, rhs.y), FMul(self.z, rhs.z))

\* f32 / Vec3<T>
F32_div_Vec3(self, rhs) ==
    Vec3_new(FDiv(self, rhs.x), FDiv(self, rhs.y), FDiv(self, rhs.z))

Vec3_div_vec(self, rhs) ==
    Vec3_new(FDiv(self.x, rhs.x), FDiv(self.y, rhs.y), FDiv(self.z, rhs.z))

\* a slip in neg: z is copied, not negated
Vec3_neg_keeps_z(self) == [x |-> FNeg(self.x), y |-> FNeg(self.y), z |-> self.z]

Vec3_neg(self) == Vec3_new(FNeg(self.x), FNeg(self.y), FNeg(self.z))

Vec3_eq(self, other) ==
    FEq(self.x, other.x) /\ FEq(self.y, other.y) /\ FEq(self.z, other.z)

(***************************************************************************)
(* The inputs: the values a caller constructs vectors from.                *)
(***************************************************************************)
\* an integer literal as a float (3 as 3.0)
FromInt(i) == Fin(IF i < 0 THEN 1 ELSE 0, AbsI(i) * One)
NegZero == Fin(1, 0)
\* the smallest positive subnormal and the largest finite float
Tiny == Fin(0, 1)
Huge == Fin(0, MaxFinite)
\* 1.125: its square is not representable and is rounded
OneAndEighth == Fin(0, One + One \div 8)

IntScalars2 == {MinInt, -1, 0, 2, 10, MaxInt}
IntScalars3 == {MinInt, -1, MaxInt}
FloatScalars2 ==
    {NegZero, FromInt(1), FromInt(-3), OneAndEighth, Huge, Tiny, NaN, Inf(0)}
FloatScalars3 == {FromInt(1), FromInt(-3), OneAndEighth}
FloatScalars ==
    {FromInt(0), FromInt(2), FromInt(-1), OneAndEighth, Huge, Tiny, NaN, Inf(1)}

Tuples2(S) == {<<x, y>> : x \in S, y \in S}
Tuples3(S) == {<<x, y, z>> : x \in S, y \in S, z \in S}

\* the literals of the tests and doc examples of src/lib.rs
LibLiterals2 ==
    {<<5, -5>>, <<5, 6>>, <<6, 5>>, <<2, 3>>, <<3, 2>>, <<0, 30>>, <<5, 10>>,
     <<10, 10>>, <<1, 2>>, <<12, 6>>, <<17, 9>>}
LibLiterals3 ==
    {<<5, 5, 5>>, <<5, 6, 7>>, <<6, 5, 9>>, <<2, 7, 1>>, <<3, -2, 4>>,
     <<10, 30, 10>>, <<5, 10, 3>>, <<10, 10, 10>>, <<3, 6, 8>>, <<9, 4, 7>>,
     <<3, 2, 1>>, <<1, 2, 3>>, <<0, 0, 0>>, <<2, 6, 7>>, <<5, 3, 8>>}
\* the literals of the doc examples of src/vecs, and the special values
VecLiterals2 ==
    {<<FromInt(0), FromInt(0)>>, <<FromInt(1), FromInt(2)>>,
     <<FromInt(10), FromInt(10)>>, <<FromInt(4), FromInt(9)>>,
     <<FromInt(3), FromInt(4)>>, <<FromInt(-12), FromInt(15)>>}
VecLiterals3 ==
    {<<FromInt(0), FromInt(0), FromInt(0)>>, <<NegZero, NegZero, NegZero>>,
     <<FromInt(1), FromInt(2), FromInt(3)>>, <<FromInt(3), FromInt(2), FromInt(1)>>,
     <<FromInt(10), FromInt(10), FromInt(10)>>,
     <<FromInt(-12), FromInt(15), FromInt(-9)>>,
     <<FromInt(5), FromInt(0), FromInt(8)>>,
     <<NaN, FromInt(1), FromInt(0)>>, <<Inf(0), FromInt(0), FromInt(-1)>>,
     <<Huge, Huge, FromInt(1)>>, <<Huge, FromInt(0), FromInt(0)>>,
     <<Tiny, FromInt(0), FromInt(0)>>, <<Tiny, Tiny, FromInt(1)>>}

\* the vectors and scalars a caller that makes a sequence of calls draws from
SeqInputs2 ==
    {<<FromInt(0), FromInt(0)>>, <<FromInt(1), FromInt(2)>>,
     <<FromInt(-3), OneAndEighth>>, <<NaN, Huge>>}
SeqInputs3 ==
    {<<FromInt(0), FromInt(0), FromInt(0)>>,
     <<FromInt(1), FromInt(2), FromInt(3)>>,
     <<FromInt(-3), OneAndEighth, Tiny>>, <<NaN, Huge, FromInt(1)>>}
SeqScalars == {FromInt(2), Inf(0)}
\* the number of calls of such a sequence
MaxCalls == 3

LibInputs2 == Tuples2(IntScalars2) \cup LibLiterals2
LibInputs3 == Tuples3(IntScalars3) \cup LibLiterals3
VecInputs2 == Tuples2(FloatScalars2) \cup VecLiterals2
VecInputs3 == Tuples3(FloatScalars3) \cup VecLiterals3

(***************************************************************************)
(* The state: one vector a of a caller, and the last call made on it.      *)
(*   impl    "lib" (src/lib.rs, integer T) or "vecs" (src/vecs, float T)   *)
(*   dim     2 (Vec2) or 3 (Vec3)                                          *)
(*   checks  the build's overflow checks (debug, test: on; release: off)   *)
(*   a       the vector the calls are made on                              *)
(*   op      the last call; b its argument; res what it returned           *)
(*   caller  "once": one call on a, inputs from the wide sets;             *)
(*           "sequence": up to MaxCalls calls, inputs from the Seq sets    *)
(*   calls   the number of calls made so far                               *)
(*   replay  the value the caller would hold had it written every set as   *)
(*           v = Vec::new(..), every += as v = v + w, every -= as v = v - w *)
(***************************************************************************)
VARIABLES impl, dim, checks, a, b, op, res, caller, calls, replay

vars == <<impl, dim, checks, a, b, op, res, caller, calls, replay>>

\* the vectors and scalars the caller passes
Pool2 == IF caller = "once" THEN VecInputs2 ELSE SeqInputs2
Pool3 == IF caller = "once" THEN VecInputs3 ELSE SeqInputs3
PoolScalars == IF caller = "once" THEN FloatScalars ELSE SeqScalars

NoArg == [kind |-> "none", val |-> 0]
ArgVec(v) == [kind |-> "vec", val |-> v]
ArgNum(x) == [kind |-> "num", val |-> x]
ArgNums(t) == [kind |-> "nums", val |-> t]

Unit == [kind |-> "unit", val |-> 0]
Panic == [kind |-> "panic", val |-> 0]
Num(x) == [kind |-> "num", val |-> x]
Vec(v) == [kind |-> "vec", val |-> v]
Bool(t) == [kind |-> "bool", val |-> t]
\* what the caller sees of an integer outcome
NumOf(o) == IF o.p THEN Panic ELSE Num(o.v)
VecOf(o) == IF o.p THEN Panic ELSE Vec(o.v)

\* a panic unwinds the caller: nothing is called after it
Aborted == res.kind = "panic"

Init ==
    /\ impl \in {"lib", "vecs"}
    /\ dim \in {2, 3}
    /\ checks \in (IF impl = "lib" THEN BOOLEAN ELSE {TRUE})
    /\ a \in (IF impl = "lib"
              THEN (IF dim = 2
                    THEN {LibVec2_new(t[1], t[2]) : t \in LibInputs2}
                    ELSE {LibVec3_new(t[1], t[2], t[3]) : t \in LibInputs3})
              ELSE (IF dim = 2
                    THEN {Vec2_new(t[1], t[2]) : t \in VecInputs2}
                    ELSE {Vec3_new(t[1], t[2], t[3]) : t \in VecInputs3}))
    /\ b = NoArg
    /\ op = "new"
    /\ res = Vec(a)
    /\ caller = "once"
    /\ calls = 0
    /\ replay = a

InitSeq ==
    /\ impl = "vecs"
    /\ dim \in {2, 3}
    /\ checks = TRUE
    /\ a \in (IF dim = 2
              THEN {Vec2_new(t[1], t[2]) : t \in SeqInputs2}
              ELSE {Vec3_new(t[1], t[2], t[3]) : t \in SeqInputs3})
    /\ b = NoArg
    /\ op = "new"
    /\ res = Vec(a)
    /\ caller = "sequence"
    /\ calls = 0
    /\ replay = a

\* the caller may make one more call
MayCall == calls < (IF caller = "once" THEN 1 ELSE MaxCalls)

\* a call that leaves the vector it is made on as it was
Call(name, arg, result) ==
    /\ MayCall
    /\ ~Aborted
    /\ op' = name
    /\ b' = arg
    /\ res' = result
    /\ calls' = calls + 1
    /\ UNCHANGED <<impl, dim, checks, a, caller, replay>>

\* the pure counterpart of a call through &mut self, applied to the value v:
\* Vec::new for set, v + w for +=, v - w for -=
Replayed(v, name, arg) ==
    CASE name = "set" ->
           (IF dim = 2 THEN Vec2_new(arg.val[1], arg.val[2])
            ELSE Vec3_new(arg.val[1], arg.val[2], arg.val[3]))
      [] name = "add_assign" ->
           (IF dim = 2 THEN Vec2_add(v, arg.val) ELSE Vec3_add(v, arg.val))
      [] name = "sub_assign" ->
           (IF dim = 2 THEN Vec2_sub(v, arg.val) ELSE Vec3_sub(v, arg.val))
      [] OTHER -> v

\* a call through &mut self: it returns () and leaves self as after
Mutate(name, arg, after) ==
    /\ MayCall
    /\ ~Aborted
    /\ op' = name
    /\ b' = arg
    /\ res' = Unit
    /\ a' = after
    /\ replay' = Replayed(replay, name, arg)
    /\ calls' = calls + 1
    /\ UNCHANGED <<impl, dim, checks, caller>>

(***************************************************************************)
(* src/lib.rs                                                              *)
(***************************************************************************)
LibDot2 ==
    /\ impl = "lib" /\ dim = 2
    /\ \E t \in LibInputs2 :
         LET w == LibVec2_new(t[1], t[2])
         IN  Call("dot", ArgVec(w), NumOf(LibVec2_dot(a, w, checks)))

LibAdd2 ==
    /\ impl = "lib" /\ dim = 2
    /\ \E t \in LibInputs2 :
         LET w == LibVec2_new(t[1], t[2])
         IN  Call("add", ArgVec(w), VecOf(LibVec2_add(a, w, checks)))

LibSub2 ==
    /\ impl = "lib" /\ dim = 2
    /\ \E t \in LibInputs2 :
         LET w == LibVec2_new(t[1], t[2])
         IN  Call("sub", ArgVec(w), VecOf(LibVec2_sub(a, w, checks)))

LibEq2 ==
    /\ impl = "lib" /\ dim = 2
    /\ \E t \in LibInputs2 :
         LET w == LibVec2_new(t[1], t[2])
         IN  Call("eq", ArgVec(w), Bool(LibVec2_eq(a, w)))

LibDot3 ==
    /\ impl = "lib" /\ dim = 3
    /\ \E t \in LibInputs3 :
         LET w == LibVec3_new(t[1], t[2], t[3])
         IN  Call("dot", ArgVec(w), NumOf(LibVec3_dot(a, w, checks)))

LibCross ==
    /\ impl = "lib" /\ dim = 3
    /\ \E t \in LibInputs3 :
         LET w == LibVec3_new(t[1], t[2], t[3])
         IN  Call("cross", ArgVec(w), VecOf(LibVec3_cross(a, w, checks)))

LibAdd3 ==
    /\ impl = "lib" /\ dim = 3
    /\ \E t \in LibInputs3 :
         LET w == LibVec3_new(t[1], t[2], t[3])
         IN  Call("add", ArgVec(w), VecOf(LibVec3_add(a, w, checks)))

LibSub3 ==
    /\ impl = "lib" /\ dim = 3
    /\ \E t \in LibInputs3 :
         LET w == LibVec3_new(t[1], t[2], t[3])
         IN  Call("sub", ArgVec(w), VecOf(LibVec3_sub(a, w, checks)))

LibEq3 ==
    /\ impl = "lib" /\ dim = 3
    /\ \E t \in LibInputs3 :
         LET w == LibVec3_new(t[1], t[2], t[3])
         IN  Call("eq", ArgVec(w), Bool(LibVec3_eq(a, w)))

LibNext ==
    \/ LibDot2 \/ LibAdd2 \/ LibSub2 \/ LibEq2
    \/ LibDot3 \/ LibCross \/ LibAdd3 \/ LibSub3 \/ LibEq3

(***************************************************************************)
(* src/vecs/vec2.rs                                                        *)
(***************************************************************************)
Dot2 ==
    /\ impl = "vecs" /\ dim = 2
    /\ \E t \in Pool2 :
         LET w == Vec2_new(t[1], t[2])
         IN  Call("dot", ArgVec(w), Num(Vec2_dot(a, w)))

Length2 ==
    /\ impl = "vecs" /\ dim = 2
    /\ Call("length", NoArg, Num(Vec2_length(a)))

LengthSquared2 ==
    /\ impl = "vecs" /\ dim = 2
    /\ Call("length_squared", NoArg, Num(Vec2_length_squared(a)))

Normal2 ==
    /\ impl = "vecs" /\ dim = 2
    /\ Call("normal", NoArg, Vec(Vec2_normal(a)))

Normalize2 ==
    /\ impl = "vecs" /\ dim = 2
    /\ Call("normalize", NoArg, Vec(Vec2_normalize(a)))

Abs2 ==
    /\ impl = "vecs" /\ dim = 2
    /\ Call("abs", NoArg, Vec(Vec2_abs(a)))

GetX2 ==
    /\ impl = "vecs" /\ dim = 2
    /\ Call("x", NoArg, Num(Vec2_x(a)))

GetY2 ==
    /\ impl = "vecs" /\ dim = 2
    /\ Call("y", NoArg, Num(Vec2_y(a)))

Add2 ==
    /\ impl = "vecs" /\ dim = 2
    /\ \E t \in Pool2 :
         LET w == Vec2_new(t[1], t[2])
         IN  Call("add", ArgVec(w), Vec(Vec2_add(a, w)))

Sub2 ==
    /\ impl = "vecs" /\ dim = 2
    /\ \E t \in Pool2 :
         LET w == Vec2_new(t[1], t[2])
         IN  Call("sub", ArgVec(w), Vec(Vec2_sub(a, w)))

MulScalar2 ==
    /\ impl = "vecs" /\ dim = 2
    /\ \E k \in PoolScalars :
         Call("mul_scalar", ArgNum(k), Vec(Vec2_mul_scalar(a, k)))

MulVec2 ==
    /\ impl = "vecs" /\ dim = 2
    /\ \E t \in Pool2 :
         LET w == Vec2_new(t[1], t[2])
         IN  Call("mul_vec", ArgVec(w), Vec(Vec2_mul_vec(a, w)))

DivScalar2 ==
    /\ impl = "vecs" /\ dim = 2
    /\ \E k \in PoolScalars :
         Call("div_scalar", ArgNum(k), Vec(Vec2_div_scalar(a, k)))

DivVec2 ==
    /\ impl = "vecs" /\ dim = 2
    /\ \E t \in Pool2 :
         LET w == Vec2_new(t[1], t[2])
         IN  Call("div_vec", ArgVec(w), Vec(Vec2_div_vec(a, w)))

Set2 ==
    /\ impl = "vecs" /\ dim = 2
    /\ \E t \in Pool2 :
         Mutate("set", ArgNums(t), Vec2_set(a, t[1], t[2]))

AddAssign2 ==
    /\ impl = "vecs" /\ dim = 2
    /\ \E t \in Pool2 :
         LET w == Vec2_new(t[1], t[2])
         IN  Mutate("add_assign", ArgVec(w), Vec2_add_assign(a, w))

SubAssign2 ==
    /\ impl = "vecs" /\ dim = 2
    /\ \E t \in Pool2 :
         LET w == Vec2_new(t[1], t[2])
         IN  Mutate("sub_assign", ArgVec(w), Vec2_sub_assign(a, w))

F32Mul2 ==
    /\ impl = "vecs" /\ dim = 2
    /\ \E k \in PoolScalars :
         Call("f32_mul", ArgNum(k), Vec(F32_mul_Vec2(k, a)))

F32Div2 ==
    /\ impl = "vecs" /\ dim = 2
    /\ \E k \in PoolScalars :
         Call("f32_div", ArgNum(k), Vec(F32_div_Vec2(k, a)))

Neg2 ==
    /\ impl = "vecs" /\ dim = 2
    /\ Call("neg", NoArg, Vec(Vec2_neg(a)))

Eq2 ==
    /\ impl = "vecs" /\ dim = 2
    /\ \E t \in Pool2 :
         LET w == Vec2_new(t[1], t[2])
         IN  Call("eq", ArgVec(w), Bool(Vec2_eq(a, w)))

Vec2Next ==
    \/ Dot2 \/ Length2 \/ LengthSquared2 \/ Normal2 \/ Normalize2 \/ Abs2
    \/ GetX2 \/ GetY2 \/ Add2 \/ Sub2 \/ MulScalar2 \/ MulVec2
    \/ DivScalar2 \/ DivVec2 \/ Neg2 \/ Eq2
    \/ Set2 \/ AddAssign2 \/ SubAssign2 \/ F32Mul2 \/ F32Div2

(***************************************************************************)
(* src/vecs/vec3.rs                                                        *)
(***************************************************************************)
Dot3 ==
    /\ impl = "vecs" /\ dim = 3
    /\ \E t \in Pool3 :
         LET w == Vec3_new(t[1], t[2], t[3])
         IN  Call("dot", ArgVec(w), Num(Vec3_dot(a, w)))

Cross ==
    /\ impl = "vecs" /\ dim = 3
    /\ \E t \in Pool3 :
         LET w == Vec3_new(t[1], t[2], t[3])
         IN  Call("cross", ArgVec(w), Vec(Vec3_cross(a, w)))

Length3 ==
    /\ impl = "vecs" /\ dim = 3
    /\ Call("length", NoArg, Num(Vec3_length(a)))

LengthSquared3 ==
    /\ impl = "vecs" /\ dim = 3
    /\ Call("length_squared", NoArg, Num(Vec3_length_squared(a)))

Normalize3 ==
    /\ impl = "vecs" /\ dim = 3
    /\ Call("normalize", NoArg, Vec(Vec3_normalize(a)))

Abs3 ==
    /\ impl = "vecs" /\ dim = 3
    /\ Call("abs", NoArg, Vec(Vec3_abs(a)))

GetX3 ==
    /\ impl = "vecs" /\ dim = 3
    /\ Call("x", NoArg, Num(Vec3_x(a)))

GetY3 ==
    /\ impl = "vecs" /\ dim = 3
    /\ Call("y", NoArg, Num(Vec3_y(a)))

GetZ3 ==
    /\ impl = "vecs" /\ dim = 3
    /\ Call("z", NoArg, Num(Vec3_z(a)))

Add3 ==
    /\ impl = "vecs" /\ dim = 3
    /\ \E t \in Pool3 :
         LET w == Vec3_new(t[1], t[2], t[3])
         IN  Call("add", ArgVec(w), Vec(Vec3_add(a, w)))

Sub3 ==
    /\ impl = "vecs" /\ dim = 3
    /\ \E t \in Pool3 :
         LET w == Vec3_new(t[1], t[2], t[3])
         IN  Call("sub", ArgVec(w), Vec(Vec3_sub(a, w)))

MulScalar3 ==
    /\ impl = "vecs" /\ dim = 3
    /\ \E k \in PoolScalars :
         Call("mul_scalar", ArgNum(k), Vec(Vec3_mul_scalar(a, k)))

MulVec3 ==
    /\ impl = "vecs" /\ dim = 3
    /\ \E t \in Pool3 :
         LET w == Vec3_new(t[1], t[2], t[3])
         IN  Call("mul_vec", ArgVec(w), Vec(Vec3_mul_vec(a, w)))

DivScalar3 ==
    /\ impl = "vecs" /\ dim = 3
    /\ \E k \in PoolScalars :
         Call("div_scalar", ArgNum(k), Vec(Vec3_div_scalar(a, k)))

DivVec3 ==
    /\ impl = "vecs" /\ dim = 3
    /\ \E t \in Pool3 :
         LET w == Vec3_new(t[1], t[2], t[3])
         IN  Call("div_vec", ArgVec(w), Vec(Vec3_div_vec(a, w)))

Set3 ==
    /\ impl = "vecs" /\ dim = 3
    /\ \E t \in Pool3 :
         Mutate("set", ArgNums(t), Vec3_set(a, t[1], t[2], t[3]))

AddAssign3 ==
    /\ impl = "vecs" /\ dim = 3
    /\ \E t \in Pool3 :
         LET w == Vec3_new(t[1], t[2], t[3])
         IN  Mutate("add_assign", ArgVec(w), Vec3_add_assign(a, w))

SubAssign3 ==
    /\ impl = "vecs" /\ dim = 3
    /\ \E t \in Pool3 :
         LET w == Vec3_new(t[1], t[2], t[3])
         IN  Mutate("sub_assign", ArgVec(w), Vec3_sub_assign(a, w))

F32Mul3 ==
    /\ impl = "vecs" /\ dim = 3
    /\ \E k \in PoolScalars :
         Call("f32_mul", ArgNum(k), Vec(F32_mul_Vec3(k, a)))

F32Div3 ==
    /\ impl = "vecs" /\ dim = 3
    /\ \E k \in PoolScalars :
         Call("f32_div", ArgNum(k), Vec(F32_div_Vec3(k, a)))

\* a slip: neg negates the vector it is called on, in place
Neg3_in_place ==
    /\ impl = "vecs" /\ dim = 3
    /\ Mutate("neg", NoArg, Vec3_neg(a))

Neg3 ==
    /\ impl = "vecs" /\ dim = 3
    /\ Call("neg", NoArg, Vec(Vec3_neg(a)))

Eq3 ==
    /\ impl = "vecs" /\ dim = 3
    /\ \E t \in Pool3 :
         LET w == Vec3_new(t[1], t[2], t[3])
         IN  Call("eq", ArgVec(w), Bool(Vec3_eq(a, w)))

Vec3Next ==
    \/ Dot3 \/ Cross \/ Length3 \/ LengthSquared3 \/ Normalize3 \/ Abs3
    \/ GetX3 \/ GetY3 \/ GetZ3 \/ Add3 \/ Sub3 \/ MulScalar3 \/ MulVec3
    \/ DivScalar3 \/ DivVec3 \/ Neg3 \/ Eq3
    \/ Set3 \/ AddAssign3 \/ SubAssign3 \/ F32Mul3 \/ F32Div3

Next == LibNext \/ Vec2Next \/ Vec3Next

Spec == Init /\ [][Next]_vars

\* a caller of src/vecs that makes a sequence of calls on one vector
NextSeq == Vec2Next \/ Vec3Next

SpecSeq == InitSeq /\ [][NextSeq]_vars

(***************************************************************************)
(* Properties.                                                             *)
(***************************************************************************)
IsCall(i, d, name) == impl = i /\ dim = d /\ op = name

\* the same float, or both NaN: what == cannot tell apart, and NaN
Same(x, y) == (IsNaN(x) /\ IsNaN(y)) \/ FEq(x, y)

\* C1: a.cross(b) is the right-handed cross product: x = a.y*b.z - a.z*b.y,
\* y = -(a.x*b.z - a.z*b.x), z = a.x*b.y - a.y*b.x in the arithmetic of the
\* element type (modulo 2^IntBits for the integer Vec3 of lib.rs whenever it
\* returns, each operation rounded for the float Vec3 of vecs/vec3.rs), and
\* (3,6,8) x (9,4,7) = (10,51,-42), (3,2,1) x (1,2,3) = (4,-8,4).
C1_CrossFormula ==
    /\ (IsCall("lib", 3, "cross") /\ res.kind = "vec") =>
          LET o == b.val
          IN  /\ res.val.x = Wrap(a.y * o.z - a.z * o.y)
              /\ res.val.y = Wrap(-(a.x * o.z - a.z * o.x))
              /\ res.val.z = Wrap(a.x * o.y - a.y * o.x)
    /\ (IsCall("lib", 3, "cross") /\ a = LibVec3_new(3, 6, 8)
          /\ b.val = LibVec3_new(9, 4, 7)) =>
          res = Vec(LibVec3_new(10, 51, -42))
    /\ IsCall("vecs", 3, "cross") =>
          LET o == b.val
          IN  /\ res.val.x = FSub(FMul(a.y, o.z), FMul(a.z, o.y))
              /\ res.val.y = FNeg(FSub(FMul(a.x, o.z), FMul(a.z, o.x)))
              /\ res.val.z = FSub(FMul(a.x, o.y), FMul(a.y, o.x))
    /\ (IsCall("vecs", 3, "cross")
          /\ a = Vec3_new(FromInt(3), FromInt(2), FromInt(1))
          /\ b.val = Vec3_new(FromInt(1), FromInt(2), FromInt(3))) =>
          res.val = Vec3_new(FromInt(4), FromInt(-8), FromInt(4))

C1_Witness ==
    /\ IsCall("lib", 3, "cross")
    /\ checks
    /\ a = LibVec3_new(3, 6, 8)
    /\ b.val = LibVec3_new(9, 4, 7)
    /\ res = Vec(LibVec3_new(10, 51, -42))

\* C2 as stated: a.cross(b) == -(b.cross(a)) for all a and b, with the derived ==
C2_AntiCommutative_Original ==
    IsCall("vecs", 3, "cross") =>
        Vec3_eq(res.val, Vec3_neg(Vec3_cross(b.val, a)))

\* C2 amended: each component of a.cross(b) is the same float as that
\* component of -(b.cross(a)) or both are NaN; so a.cross(b) == -(b.cross(a))
\* exactly when a.cross(b) has no NaN component.
C2_AntiCommutative ==
    IsCall("vecs", 3, "cross") =>
        LET l == res.val
            r == Vec3_neg(Vec3_cross(b.val, a))
        IN  /\ Same(l.x, r.x) /\ Same(l.y, r.y) /\ Same(l.z, r.z)
            /\ Vec3_eq(l, r) <=> ~(IsNaN(l.x) \/ IsNaN(l.y) \/ IsNaN(l.z))

C2_Witness ==
    /\ IsCall("vecs", 3, "cross")
    /\ a = Vec3_new(FromInt(3), FromInt(2), FromInt(1))
    /\ b.val = Vec3_new(FromInt(1), FromInt(2), FromInt(3))
    /\ Vec3_eq(res.val, Vec3_neg(Vec3_cross(b.val, a)))
    /\ ~IsZero(res.val.x)

\* no product, sum or difference of the computation was rounded or left the
\* finite range
ExactMul(x, y) ==
    /\ IsFin(x) /\ IsFin(y)
    /\ LET r == FMul(x, y) IN IsFin(r) /\ r.mag * One = x.mag * y.mag
ExactAdd(x, y) ==
    /\ IsFin(x) /\ IsFin(y)
    /\ LET r == FAdd(x, y) IN IsFin(r) /\ Val(r) = Val(x) + Val(y)
ExactSub(x, y) == ExactAdd(x, FNeg(y))
ExactCross(s, o) ==
    /\ ExactMul(s.y, o.z) /\ ExactMul(s.z, o.y)
    /\ ExactMul(s.x, o.z) /\ ExactMul(s.z, o.x)
    /\ ExactMul(s.x, o.y) /\ ExactMul(s.y, o.x)
    /\ ExactSub(FMul(s.y, o.z), FMul(s.z, o.y))
    /\ ExactSub(FMul(s.x, o.z), FMul(s.z, o.x))
    /\ ExactSub(FMul(s.x, o.y), FMul(s.y, o.x))
ExactDot3(s, o) ==
    /\ ExactMul(s.x, o.x) /\ ExactMul(s.y, o.y) /\ ExactMul(s.z, o.z)
    /\ ExactAdd(FMul(s.x, o.x), FMul(s.y, o.y))
    /\ ExactAdd(FAdd(FMul(s.x, o.x), FMul(s.y, o.y)), FMul(s.z, o.z))

AllFinite3(v) == IsFin(v.x) /\ IsFin(v.y) /\ IsFin(v.z)

\* C3 as stated: a.dot(a.cross(b)) == 0 and b.dot(a.cross(b)) == 0 for all
\* a and b; read at the calls that return, and for the floats at finite a
\* and b whose cross and dot products are finite
C3_Orthogonal_Original ==
    /\ (IsCall("lib", 3, "cross") /\ res.kind = "vec") =>
          /\ ~LibVec3_dot(a, res.val, checks).p =>
                 LibVec3_dot(a, res.val, checks) = Ok(0)
          /\ ~LibVec3_dot(b.val, res.val, checks).p =>
                 LibVec3_dot(b.val, res.val, checks) = Ok(0)
    /\ (IsCall("vecs", 3, "cross") /\ AllFinite3(a) /\ AllFinite3(b.val)
          /\ AllFinite3(res.val) /\ IsFin(Vec3_dot(a, res.val))
          /\ IsFin(Vec3_dot(b.val, res.val))) =>
          /\ FEq(Vec3_dot(a, res.val), FromInt(0))
          /\ FEq(Vec3_dot(b.val, res.val), FromInt(0))

\* C3 amended: a.dot(a.cross(b)) == 0 and b.dot(a.cross(b)) == 0 for the
\* integer Vec3 of lib.rs whenever cross and dot return, and for the float
\* Vec3 whenever no product, sum or difference of the cross and of the dot
\* is rounded or leaves the finite range.
C3_Orthogonal ==
    /\ (IsCall("lib", 3, "cross") /\ res.kind = "vec") =>
          /\ ~LibVec3_dot(a, res.val, checks).p =>
                 LibVec3_dot(a, res.val, checks) = Ok(0)
          /\ ~LibVec3_dot(b.val, res.val, checks).p =>
                 LibVec3_dot(b.val, res.val, checks) = Ok(0)
    /\ (IsCall("vecs", 3, "cross") /\ ExactCross(a, b.val)) =>
          /\ ExactDot3(a, res.val) => FEq(Vec3_dot(a, res.val), FromInt(0))
          /\ ExactDot3(b.val, res.val) =>
                 FEq(Vec3_dot(b.val, res.val), FromInt(0))

C3_Witness ==
    /\ IsCall("vecs", 3, "cross")
    /\ a = Vec3_new(FromInt(3), FromInt(2), FromInt(1))
    /\ b.val = Vec3_new(FromInt(1), FromInt(2), FromInt(3))
    /\ ExactCross(a, b.val)
    /\ ExactDot3(a, res.val) /\ ExactDot3(b.val, res.val)
    /\ ~IsZero(res.val.y)
    /\ FEq(Vec3_dot(a, res.val), FromInt(0))

\* b.dot(a), as the caller of a.dot(b) would see it
DotSwapped ==
    IF impl = "lib"
    THEN (IF dim = 2 THEN NumOf(LibVec2_dot(b.val, a, checks))
          ELSE NumOf(LibVec3_dot(b.val, a, checks)))
    ELSE (IF dim = 2 THEN Num(Vec2_dot(b.val, a))
          ELSE Num(Vec3_dot(b.val, a)))

\* the value a.dot(b) == b.dot(a) evaluates to, once both have returned
DotsEqual ==
    /\ res.kind = "num"
    /\ DotSwapped.kind = "num"
    /\ IF impl = "lib" THEN res.val = DotSwapped.val
       ELSE FEq(res.val, DotSwapped.val)

\* C4 as stated: a.dot(b) == b.dot(a) for all a and b (that dot returns for)
C4_DotCommutative_Original == (op = "dot" /\ res.kind = "num") => DotsEqual

\* C4 amended: a.dot(b) and b.dot(a) have the same outcome (the same number,
\* or NaN both, or a panic both), so a.dot(b) == b.dot(a) holds whenever
\* a.dot(b) returns a number that is not NaN; dot is the sum of the products
\* of corresponding components ((10,10).(10,10) = 200,
\* (10,10,10).(10,10,10) = 300).
C4_DotCommutative ==
    /\ op = "dot" =>
          /\ res = DotSwapped
          /\ DotsEqual <=>
                 (res.kind = "num" /\ (impl = "vecs" => ~IsNaN(res.val)))
    /\ (IsCall("lib", 2, "dot") /\ res.kind = "num") =>
          res.val = Wrap(a.x * b.val.x + a.y * b.val.y)
    /\ (IsCall("lib", 3, "dot") /\ res.kind = "num") =>
          res.val = Wrap(a.x * b.val.x + a.y * b.val.y + a.z * b.val.z)
    /\ (IsCall("lib", 2, "dot") /\ a = LibVec2_new(10, 10) /\ b.val = a) =>
          res = Num(200)
    /\ (IsCall("lib", 3, "dot") /\ a = LibVec3_new(10, 10, 10) /\ b.val = a) =>
          res = Num(300)
    /\ IsCall("vecs", 2, "dot") =>
          res.val = FAdd(FMul(a.x, b.val.x), FMul(a.y, b.val.y))
    /\ IsCall("vecs", 3, "dot") =>
          res.val = FAdd(FAdd(FMul(a.x, b.val.x), FMul(a.y, b.val.y)),
                         FMul(a.z, b.val.z))

C4_Witness ==
    /\ IsCall("vecs", 2, "dot")
    /\ a = Vec2_new(FromInt(1), FromInt(-3))
    /\ b.val = Vec2_new(OneAndEighth, FromInt(1))
    /\ DotsEqual
    /\ ~IsZero(res.val)

ZeroVec2 == Vec2_new(FromInt(0), FromInt(0))
ZeroVec3 == Vec3_new(FromInt(0), FromInt(0), FromInt(0))
IsZeroVec(v) ==
    IF impl = "lib"
    THEN v.x = 0 /\ v.y = 0 /\ (dim = 3 => v.z = 0)
    ELSE IsZero(v.x) /\ IsZero(v.y) /\ (dim = 3 => IsZero(v.z))
\* v == w with the derived == of the vector type of the state
VecEq(v, w) ==
    IF impl = "lib"
    THEN (IF dim = 2 THEN LibVec2_eq(v, w) ELSE LibVec3_eq(v, w))
    ELSE (IF dim = 2 THEN Vec2_eq(v, w) ELSE Vec3_eq(v, w))
ZeroVec ==
    IF impl = "lib"
    THEN (IF dim = 2 THEN LibVec2_new(0, 0) ELSE LibVec3_new(0, 0, 0))
    ELSE (IF dim = 2 THEN ZeroVec2 ELSE ZeroVec3)
HasNaN(v) == impl = "vecs" /\ (IsNaN(v.x) \/ IsNaN(v.y) \/ (dim = 3 /\ IsNaN(v.z)))
AllFinite(v) ==
    impl = "vecs" => (IsFin(v.x) /\ IsFin(v.y) /\ (dim = 3 => IsFin(v.z)))

\* every component of a + b (a - b) is the sum (difference) of the
\* corresponding components of a and b, whenever the call returns
Componentwise ==
    /\ (impl = "lib" /\ op = "add" /\ res.kind = "vec") =>
          /\ res.val.x = Wrap(a.x + b.val.x)
          /\ res.val.y = Wrap(a.y + b.val.y)
          /\ dim = 3 => res.val.z = Wrap(a.z + b.val.z)
    /\ (impl = "lib" /\ op = "sub" /\ res.kind = "vec") =>
          /\ res.val.x = Wrap(a.x - b.val.x)
          /\ res.val.y = Wrap(a.y - b.val.y)
          /\ dim = 3 => res.val.z = Wrap(a.z - b.val.z)
    /\ (impl = "vecs" /\ op = "add") =>
          /\ res.val.x = FAdd(a.x, b.val.x)
          /\ res.val.y = FAdd(a.y, b.val.y)
          /\ dim = 3 => res.val.z = FAdd(a.z, b.val.z)
    /\ (impl = "vecs" /\ op = "sub") =>
          /\ res.val.x = FAdd(a.x, FNeg(b.val.x))
          /\ res.val.y = FAdd(a.y, FNeg(b.val.y))
          /\ dim = 3 => res.val.z = FAdd(a.z, FNeg(b.val.z))

\* C5 as stated: + and - are componentwise, so a + zero == a and
\* a - a == zero for all a
C5_Componentwise_Original ==
    /\ Componentwise
    /\ (op = "add" /\ res.kind = "vec" /\ IsZeroVec(b.val)) => VecEq(res.val, a)
    /\ (op = "sub" /\ res.kind = "vec" /\ b.val = a) => VecEq(res.val, ZeroVec)

\* C5 amended: + and - are componentwise and treat components independently;
\* a + zero == a for every a with no NaN component and a - a == zero for
\* every a whose components are all finite (with a NaN component a + zero
\* is not == a, with a NaN or infinite component a - a is not == zero).
C5_Componentwise ==
    /\ Componentwise
    /\ (op = "add" /\ res.kind = "vec" /\ IsZeroVec(b.val)) =>
          (VecEq(res.val, a) <=> ~HasNaN(a))
    /\ (op = "sub" /\ res.kind = "vec" /\ b.val = a) =>
          (VecEq(res.val, ZeroVec) <=> AllFinite(a))

C5_Witness ==
    /\ IsCall("vecs", 3, "sub")
    /\ b.val = a
    /\ a = Vec3_new(FromInt(-3), OneAndEighth, FromInt(1))
    /\ VecEq(res.val, ZeroVec)

\* C6: a == b holds if and only if every component of a equals (with the
\* element type's ==) the corresponding component of b; swapping two unequal
\* components (Vec2(5,6) against Vec2(6,5)) yields inequality.
C6_StructuralEq ==
    /\ (impl = "lib" /\ op = "eq") =>
          res.val = (a.x = b.val.x /\ a.y = b.val.y
                       /\ (dim = 3 => a.z = b.val.z))
    /\ (impl = "vecs" /\ op = "eq") =>
          res.val = (FEq(a.x, b.val.x) /\ FEq(a.y, b.val.y)
                       /\ (dim = 3 => FEq(a.z, b.val.z)))
    /\ (op = "eq" /\ dim = 2 /\ b.val.x = a.y /\ b.val.y = a.x
          /\ (IF impl = "lib" THEN a.x # a.y ELSE ~FEq(a.x, a.y))) =>
          res.val = FALSE
    /\ (IsCall("lib", 2, "eq") /\ a = LibVec2_new(5, 6)
          /\ b.val = LibVec2_new(6, 5)) => res.val = FALSE

C6_Witness ==
    /\ IsCall("vecs", 2, "eq")
    /\ a = Vec2_new(FromInt(1), FromInt(-3))
    /\ b.val = Vec2_new(FromInt(-3), FromInt(1))
    /\ res.val = FALSE

\* C7: v.normal() returns (-v.y, v.x): the left-hand perpendicular, of the
\* length of v and not of length 1 ((4,9).normal() == (-9,4)); v itself is
\* left unchanged.
C7_Normal ==
    [][IsCall("vecs", 2, "normal")' =>
          /\ a' = a
          /\ res'.val.x = FNeg(a.y)
          /\ res'.val.y = a.x
          /\ Vec2_length(res'.val) = Vec2_length(a)
          /\ a = Vec2_new(FromInt(4), FromInt(9)) =>
                Vec2_eq(res'.val, Vec2_new(FromInt(-9), FromInt(4)))]_vars

C7_Witness ==
    /\ IsCall("vecs", 2, "normal")
    /\ a = Vec2_new(FromInt(4), FromInt(9))
    /\ res.val = Vec2_new(FromInt(-9), FromInt(4))
    /\ ~FEq(Vec2_length(res.val), FromInt(1))

\* some product, sum, difference or negation of the call, computed exactly,
\* is outside the integer element type
Out(n) == ~InRange(n)
IntOverflows ==
    LET o == b.val
    IN  CASE op = "dot" /\ dim = 2 ->
               Out(a.x * o.x) \/ Out(a.y * o.y) \/ Out(a.x * o.x + a.y * o.y)
          [] op = "dot" /\ dim = 3 ->
               \/ Out(a.x * o.x) \/ Out(a.y * o.y) \/ Out(a.z * o.z)
               \/ Out(a.x * o.x + a.y * o.y)
               \/ Out(a.x * o.x + a.y * o.y + a.z * o.z)
          [] op = "cross" ->
               \/ Out(a.y * o.z) \/ Out(a.z * o.y) \/ Out(a.y * o.z - a.z * o.y)
               \/ Out(a.x * o.z) \/ Out(a.z * o.x) \/ Out(a.x * o.z - a.z * o.x)
               \/ Out(a.x * o.y) \/ Out(a.y * o.x) \/ Out(a.x * o.y - a.y * o.x)
               \/ Out(-(a.x * o.z - a.z * o.x))
          [] op = "add" ->
               Out(a.x + o.x) \/ Out(a.y + o.y) \/ (dim = 3 /\ Out(a.z + o.z))
          [] op = "sub" ->
               Out(a.x - o.x) \/ Out(a.y - o.y) \/ (dim = 3 /\ Out(a.z - o.z))
          [] OTHER -> FALSE

\* a product or a sum of two finite floats that, computed exactly, is beyond
\* the largest finite float
MulOver(x, y) == IsFin(x) /\ IsFin(y) /\ x.mag * y.mag > MaxFinite * One
AddOver(x, y) == IsFin(x) /\ IsFin(y) /\ AbsI(Val(x) + Val(y)) > MaxFinite
SubOver(x, y) == AddOver(x, FNeg(y))
FloatOverflows ==
    LET o == b.val
    IN  CASE op = "dot" /\ dim = 2 ->
               \/ MulOver(a.x, o.x) \/ MulOver(a.y, o.y)
               \/ AddOver(FMul(a.x, o.x), FMul(a.y, o.y))
          [] op = "dot" /\ dim = 3 ->
               \/ MulOver(a.x, o.x) \/ MulOver(a.y, o.y) \/ MulOver(a.z, o.z)
               \/ AddOver(FMul(a.x, o.x), FMul(a.y, o.y))
               \/ AddOver(FAdd(FMul(a.x, o.x), FMul(a.y, o.y)), FMul(a.z, o.z))
          [] op = "cross" ->
               \/ MulOver(a.y, o.z) \/ MulOver(a.z, o.y)
               \/ MulOver(a.x, o.z) \/ MulOver(a.z, o.x)
               \/ MulOver(a.x, o.y) \/ MulOver(a.y, o.x)
               \/ SubOver(FMul(a.y, o.z), FMul(a.z, o.y))
               \/ SubOver(FMul(a.x, o.z), FMul(a.z, o.x))
               \/ SubOver(FMul(a.x, o.y), FMul(a.y, o.x))
          [] op = "add" ->
               \/ AddOver(a.x, o.x) \/ AddOver(a.y, o.y)
               \/ (dim = 3 /\ AddOver(a.z, o.z))
          [] op = "sub" ->
               \/ SubOver(a.x, o.x) \/ SubOver(a.y, o.y)
               \/ (dim = 3 /\ SubOver(a.z, o.z))
          [] OTHER -> FALSE

\* the call is one of new, dot, cross, + and -
IsArith == op \in {"new", "dot", "cross", "add", "sub"}
\* a float call returned a value with a component that is not finite
NonFinite ==
    /\ impl = "vecs"
    /\ IF res.kind = "num" THEN ~IsFin(res.val) ELSE ~AllFinite(res.val)

\* C9 as stated: for every input, new, dot, cross, + and - return a result
\* and never trap, also at the fixed-width integer element types; non-finite
\* values come from division and sqrt only
C9_Total_Original ==
    IsArith =>
        /\ ~Aborted
        /\ (impl = "vecs" /\ AllFinite(a) /\ (op # "new" => AllFinite(b.val))) =>
              ~NonFinite

\* C9 amended: new, dot, cross, + and - return a result for every input at a
\* float element type, a non-finite one from finite inputs only when a
\* product, sum or difference overflows the float range; at a fixed-width
\* integer element type they return, wrapping modulo 2^IntBits, in a build
\* without overflow checks, and in a build with overflow checks they panic
\* exactly when a product, sum, difference or negation overflows the type.
C9_Total ==
    IsArith =>
        /\ impl = "vecs" => ~Aborted
        /\ impl = "lib" => (Aborted <=> (checks /\ IntOverflows))
        /\ (impl = "vecs" /\ NonFinite /\ AllFinite(a)
              /\ (op # "new" => AllFinite(b.val))) => FloatOverflows

C9_Witness ==
    /\ IsCall("lib", 3, "cross")
    /\ checks
    /\ IntOverflows
    /\ Aborted

\* the smallest normal float, and the spacing of the floats just above 1.0
MinNormal == TwoP \div 2
Epsilon == (2 * One) \div TwoP
\* the floating tolerance of a length that should be 1: the roundings of the
\* squares, sums, square roots and quotients of normalize() and length()
\* add up to less than this
Tolerance == 4 * Epsilon

LengthOf(v) == IF dim = 2 THEN Vec2_length(v) ELSE Vec3_length(v)
LengthSquaredOf(v) ==
    IF dim = 2 THEN Vec2_length_squared(v) ELSE Vec3_length_squared(v)
\* x is a finite float no further than tol units from 1.0
Near1(x, tol) == IsFin(x) /\ AbsI(Val(x) - One) <= tol
\* every component of the result is a divided by a.length()
DividedByLength ==
    /\ Same(res.val.x, FDiv(a.x, LengthOf(a)))
    /\ Same(res.val.y, FDiv(a.y, LengthOf(a)))
    /\ dim = 3 => Same(res.val.z, FDiv(a.z, LengthOf(a)))
\* the zero vector: length() is 0 and normalize() is NaN in every component
ZeroCase ==
    IsZeroVec(a) =>
        /\ IsZero(LengthOf(a))
        /\ IsNaN(res.val.x) /\ IsNaN(res.val.y) /\ (dim = 3 => IsNaN(res.val.z))

\* C10 as stated: a.normalize() is a / a.length(), and its length is 1 within
\* tolerance for every a whose length is not zero (read at the a of finite
\* components); for the zero vector length() is 0 and normalize() is not
\* finite
C10_Normalize_Original ==
    (impl = "vecs" /\ op = "normalize") =>
        /\ DividedByLength
        /\ ZeroCase
        /\ (AllFinite(a) /\ ~FEq(LengthOf(a), FromInt(0))) =>
              Near1(LengthOf(res.val), Tolerance)

\* C10 amended: a.normalize() is a divided componentwise by a.length(); its
\* length is 1 within tolerance for every a whose squared length neither
\* overflows nor underflows (is finite and not below the smallest normal
\* float); for the zero vector length() is 0 and every component of
\* normalize() is NaN.
C10_Normalize ==
    (impl = "vecs" /\ op = "normalize") =>
        /\ DividedByLength
        /\ ZeroCase
        /\ (AllFinite(a) /\ IsFin(LengthSquaredOf(a))
              /\ LengthSquaredOf(a).mag >= MinNormal) =>
              Near1(LengthOf(res.val), Tolerance)

C10_Witness ==
    /\ IsCall("vecs", 2, "normalize")
    /\ a = Vec2_new(FromInt(3), FromInt(4))
    /\ IsFin(LengthSquaredOf(a)) /\ LengthSquaredOf(a).mag >= MinNormal
    /\ ~IsZero(res.val.x) /\ ~FEq(res.val.x, a.x)
    /\ Near1(LengthOf(res.val), Tolerance)

Mutators == {"set", "add_assign", "sub_assign"}

\* C8 as stated: over any sequence of calls the components of a vector
\* change only in a step that is a call to set
C8_OnlySet_Original == [][a' # a => op' = "set"]_vars

\* C8 amended: over any sequence of calls the components of a vector change
\* only in a step that is a call to set, += or -=; every other operation
\* leaves the components of the vector it is applied to unchanged.
C8_OnlyMutators == [][a' # a => op' \in Mutators]_vars

\* after a += that changed the vector (no input is (2,4,6)), a call of dot
\* has left it as it was
C8_Witness ==
    /\ IsCall("vecs", 3, "dot")
    /\ caller = "sequence"
    /\ calls = 2
    /\ a = Vec3_new(FromInt(2), FromInt(4), FromInt(6))

\* the components of v as the accessors x(), y() and z() read them back
ReadBack(v) ==
    IF dim = 2 THEN <<Vec2_x(v), Vec2_y(v)>>
    ELSE <<Vec3_x(v), Vec3_y(v), Vec3_z(v)>>
\* two vectors whose components are pairwise the same float
SameVec(v, w) ==
    \A i \in 1..dim : Same(ReadBack(v)[i], ReadBack(w)[i])

\* after any sequence of calls the accessors read back the replayed value,
\* and an accessor called last has returned the replayed component
AgreesWithReplay ==
    impl = "vecs" =>
        /\ SameVec(a, replay)
        /\ op = "x" => Same(res.val, ReadBack(replay)[1])
        /\ op = "y" => Same(res.val, ReadBack(replay)[2])
        /\ op = "z" => Same(res.val, ReadBack(replay)[3])
        /\ op = "set" => \A i \in 1..dim : ReadBack(a)[i] = b.val[i]

\* a step of set, += or -= leaves the vector as its pure counterpart, applied
\* to the vector before the step and to the operand as it is after the step,
\* would: every component is written and the operand is the one passed
StepAgrees ==
    op' \in Mutators =>
        /\ LET after == a'
               pure == Replayed(a, op', b')
           IN  \A i \in 1..dim :
                  LET r == IF dim = 2 THEN <<pure.x, pure.y>>
                           ELSE <<pure.x, pure.y, pure.z>>
                      l == IF dim = 2 THEN <<Vec2_x(after), Vec2_y(after)>>
                           ELSE <<Vec3_x(after), Vec3_y(after), Vec3_z(after)>>
                  IN  Same(l[i], r[i])
        /\ op' = "set" => b'.val \in (IF dim = 2 THEN Pool2 ELSE Pool3)
        /\ op' # "set" =>
              b'.val \in (IF dim = 2
                          THEN {Vec2_new(t[1], t[2]) : t \in Pool2}
                          ELSE {Vec3_new(t[1], t[2], t[3]) : t \in Pool3})

\* C11: over any sequence of set(..), += w and -= w steps (and of the other
\* calls) the components read back by x(), y() and z() are those obtained by
\* replaying the sequence with set as Vec::new of its arguments, += as
\* v = v + w and -= as v = v - w (the same floats, or NaN both); each step
\* writes every component and leaves the operand w as it was passed.
C11_MutatorsAgree == []AgreesWithReplay /\ [][StepAgrees]_vars

\* (0,0,0) += (1,2,3), then -= (-3,1.125,Tiny), then z() read back
C11_Witness ==
    /\ IsCall("vecs", 3, "z")
    /\ caller = "sequence"
    /\ calls = 3
    /\ Same(a.x, FromInt(4)) /\ Same(a.y, FSub(FromInt(2), OneAndEighth))
    /\ Same(a.z, FSub(FromInt(3), Tiny))
    /\ Same(res.val, replay.z)
    /\ ~IsZero(res.val)

====
